---- MODULE Spec2Model ----
(***************************************************************************)
(* Model of the MTG API client (mtg_mcp_server/api/client.py): the request *)
(* execution routine _make_request with its throttle, its retry loop and   *)
(* its classification of upstream outcomes into the error taxonomy of      *)
(* models/exceptions.py.                                                   *)
(*                                                                         *)
(* Time is counted in whole time-units (seconds in the source): the        *)
(* throttle period is 1 unit and the backoff waits are 2^attempt units.    *)
(***************************************************************************)
EXTENDS Integers, Sequences, FiniteSets, TLC

\* ---------------------------------------------------------------- bounds
NumProcs == 2        \* coroutines that may call into the one client
MaxTime  == 4        \* the clock stops advancing at this value
NumBodies == 3       \* distinct parsable response bodies
SeqCalls == 11       \* calls issued in the sequential scenario
ConcCalls == 11      \* calls issued in the concurrent scenario
MaxLen   == 2        \* longest name, id or set code, in characters
IntSlack == 2        \* limits and counts are drawn this far beyond their valid range
MaxSparse == 2       \* upstream objects have at most this many keys present, or missing
OpsCalls == 2        \* calls issued in the scenario of the client operations
CloseCalls == 4      \* calls, close() included, issued in the scenario with close()
LiveCalls == 2       \* calls issued in the scenario in which termination is checked
CloseConcCalls == 5  \* calls, close() included, issued by the concurrent callers

\* ------------------------------------------------------ program constants
RateLimit   == 10    \* Throttler(rate_limit=10, ...)
Period      == 1     \* Throttler(..., period=1.0)
MaxAttempts == 3     \* for attempt in range(3)
RetryBelow  == 2     \* if attempt < 2
BackoffBase == 2     \* asyncio.sleep(2**attempt)

Procs == 1..NumProcs

\* ------------------------------------------------------ upstream outcomes
\* What one call of session.request(...) followed by response.json() can
\* produce: an HTTP response (status, and for a 200 a body that parses to
\* one of Bodies or does not parse), or an exception of the HTTP library.
Unparsable == 0
NoBody     == 0
NoStatus   == 0      \* status_code = None

Statuses == {200, 400, 404, 429, 500, 503}

HttpOutcomes ==
  {[kind |-> "http", status |-> 200, body |-> b] : b \in (1..NumBodies) \cup {Unparsable}}
  \cup {[kind |-> "http", status |-> s, body |-> NoBody] : s \in Statuses \ {200}}

ExcOutcomes ==
  {[kind |-> k, status |-> NoStatus, body |-> NoBody] : k \in {"timeout", "connect", "other"}}

Outcomes == HttpOutcomes \cup ExcOutcomes

\* A 200 whose body parses to JSON that is not an object (an array, null).
NotAnObject == -1
ArrayBody == [kind |-> "http", status |-> 200, body |-> NotAnObject]

\* The transient-overload profile: upstream answers 200 or a 5xx only.
OverloadOutcomes ==
  {o \in HttpOutcomes : (o.status = 200 /\ o.body = 1) \/ o.status = 500}

Is5xx(o) == o.kind = "http" /\ o.status >= 500
IsOk200(o) == o.kind = "http" /\ o.status = 200 /\ o.body # Unparsable

\* ------------------------------------------------------ exceptions
\* models/exceptions.py: each class fixes the status code it carries.
NoResult == [kind |-> "none", status |-> NoStatus, body |-> NoBody]

MTGAPIError(status) == [kind |-> "MTGAPIError", status |-> status, body |-> NoBody]
MTGAPIConnectionError == [kind |-> "MTGAPIConnectionError", status |-> NoStatus, body |-> NoBody]
MTGAPITimeoutError == [kind |-> "MTGAPITimeoutError", status |-> NoStatus, body |-> NoBody]
MTGAPIRateLimitError == [kind |-> "MTGAPIRateLimitError", status |-> 429, body |-> NoBody]
MTGAPINotFoundError == [kind |-> "MTGAPINotFoundError", status |-> 404, body |-> NoBody]
MTGAPIServerErrorDefault(status) == [kind |-> "MTGAPIServerError", status |-> 500, body |-> NoBody]
MTGAPIServerError(status) == [kind |-> "MTGAPIServerError", status |-> status, body |-> NoBody]

\* Exceptions of the HTTP library and of json(), as seen by the except clauses.
HttpxTimeoutException == [kind |-> "httpx.TimeoutException", status |-> NoStatus, body |-> NoBody]
HttpxConnectError == [kind |-> "httpx.ConnectError", status |-> NoStatus, body |-> NoBody]
OtherException == [kind |-> "Exception", status |-> NoStatus, body |-> NoBody]

Returned(body) == [kind |-> "ok", status |-> 200, body |-> body]
ReturnedNone == [kind |-> "None", status |-> NoStatus, body |-> NoBody]

NoRetryErrorsLessNotFound ==
  {"MTGAPIRateLimitError", "MTGAPITimeoutError", "MTGAPIConnectionError", "MTGAPIServerError"}
NoRetryErrorsLessRateLimit ==
  {"MTGAPINotFoundError", "MTGAPITimeoutError", "MTGAPIConnectionError", "MTGAPIServerError"}
\* The except tuple of lines 96-102: re-raised unchanged.
NoRetryErrors ==
  {"MTGAPINotFoundError", "MTGAPIRateLimitError", "MTGAPITimeoutError",
   "MTGAPIConnectionError", "MTGAPIServerError"}

\* ------------------------------------------------------ retry loop, pure part
RetryNever(attempt) == FALSE
RetryAlways(attempt) == TRUE
RetryAllowed(attempt) == attempt < RetryBelow

RECURSIVE Pow(_, _)
Pow(b, e) == IF e = 0 THEN 1 ELSE b * Pow(b, e - 1)

BackoffLinear(attempt) == BackoffBase * attempt
Backoff(attempt) == Pow(BackoffBase, attempt)

NextAttemptStuck(attempt) == attempt
NextAttempt(attempt) == attempt + 1

TryBodyTrustsBody(o, attempt) ==
  IF o.kind = "timeout" THEN [act |-> "raise", exc |-> HttpxTimeoutException]
  ELSE IF o.kind = "connect" THEN [act |-> "raise", exc |-> HttpxConnectError]
  ELSE IF o.kind = "other" THEN [act |-> "raise", exc |-> OtherException]
  ELSE IF o.status = 200 THEN [act |-> "return", exc |-> Returned(o.body)]
  ELSE IF o.status = 404 THEN [act |-> "raise", exc |-> MTGAPINotFoundError]
  ELSE IF o.status = 429 THEN [act |-> "raise", exc |-> MTGAPIRateLimitError]
  ELSE IF o.status >= 500 THEN
         IF RetryAllowed(attempt)
           THEN [act |-> "retry", exc |-> NoResult]
           ELSE [act |-> "raise", exc |-> MTGAPIServerError(o.status)]
  ELSE [act |-> "raise", exc |-> MTGAPIError(o.status)]
\* The body of the try block for one outcome: what it does before any
\* except clause runs.  act is "return", "raise" (exc is the exception
\* raised inside the try) or "retry" (sleep, then continue).
TryBody(o, attempt) ==
  IF o.kind = "timeout" THEN [act |-> "raise", exc |-> HttpxTimeoutException]
  ELSE IF o.kind = "connect" THEN [act |-> "raise", exc |-> HttpxConnectError]
  ELSE IF o.kind = "other" THEN [act |-> "raise", exc |-> OtherException]
  ELSE IF o.status = 200 THEN
         IF o.body = Unparsable
           THEN [act |-> "raise", exc |-> OtherException]
           ELSE [act |-> "return", exc |-> Returned(o.body)]
  ELSE IF o.status = 404 THEN [act |-> "raise", exc |-> MTGAPINotFoundError]
  ELSE IF o.status = 429 THEN [act |-> "raise", exc |-> MTGAPIRateLimitError]
  ELSE IF o.status >= 500 THEN
         IF RetryAllowed(attempt)
           THEN [act |-> "retry", exc |-> NoResult]
           ELSE [act |-> "raise", exc |-> MTGAPIServerError(o.status)]
  ELSE [act |-> "raise", exc |-> MTGAPIError(o.status)]

ExceptClausesNoConnect(exc, attempt) ==
  IF exc.kind = "httpx.TimeoutException" THEN [act |-> "raise", exc |-> MTGAPITimeoutError]
  ELSE IF exc.kind \in NoRetryErrors THEN [act |-> "raise", exc |-> exc]
  ELSE IF RetryAllowed(attempt) THEN [act |-> "retry", exc |-> NoResult]
  ELSE [act |-> "raise", exc |-> MTGAPIError(NoStatus)]
ExceptClausesNoRetry(exc, attempt) ==
  IF exc.kind = "httpx.TimeoutException" THEN [act |-> "raise", exc |-> MTGAPITimeoutError]
  ELSE IF exc.kind = "httpx.ConnectError" THEN [act |-> "raise", exc |-> MTGAPIConnectionError]
  ELSE IF exc.kind \in NoRetryErrors THEN [act |-> "raise", exc |-> exc]
  ELSE [act |-> "raise", exc |-> MTGAPIError(NoStatus)]
ExceptClausesNoTimeout(exc, attempt) ==
  IF exc.kind = "httpx.ConnectError" THEN [act |-> "raise", exc |-> MTGAPIConnectionError]
  ELSE IF exc.kind \in NoRetryErrors THEN [act |-> "raise", exc |-> exc]
  ELSE IF RetryAllowed(attempt) THEN [act |-> "retry", exc |-> NoResult]
  ELSE [act |-> "raise", exc |-> MTGAPIError(NoStatus)]
\* The except clauses, in source order, applied to an exception raised in
\* the try block.
ExceptClauses(exc, attempt) ==
  IF exc.kind = "httpx.TimeoutException" THEN [act |-> "raise", exc |-> MTGAPITimeoutError]
  ELSE IF exc.kind = "httpx.ConnectError" THEN [act |-> "raise", exc |-> MTGAPIConnectionError]
  ELSE IF exc.kind \in NoRetryErrors THEN [act |-> "raise", exc |-> exc]
  ELSE IF RetryAllowed(attempt) THEN [act |-> "retry", exc |-> NoResult]
  ELSE [act |-> "raise", exc |-> MTGAPIError(NoStatus)]

AttemptStepRetry200(o, attempt) ==
  LET t == TryBody(o, attempt)
  IN IF t.act = "raise" \/ (t.act = "return" /\ RetryAllowed(attempt))
       THEN ExceptClauses(IF t.act = "raise" THEN t.exc ELSE OtherException, attempt)
       ELSE t
\* One iteration of the loop after the outcome of session.request is known.
AttemptStep(o, attempt) ==
  LET t == TryBody(o, attempt)
  IN IF t.act = "raise" THEN ExceptClauses(t.exc, attempt) ELSE t

\* ------------------------------------------------------ throttle, pure part
\* Throttler.flush: drop the log entries older than the period.
RECURSIVE Flush(_, _)
Flush(logs, t) ==
  IF logs # <<>> /\ t - Head(logs) > Period THEN Flush(Tail(logs), t) ELSE logs

\* ------------------------------------------------------ values
\* A string is a sequence of pieces of text (single characters for the
\* arguments that are validated); a JSON or parameter value is a tagged
\* record: t is "null", "str", "int", "bool" or "list" (a list of strings).
JNull == [t |-> "null", s |-> <<>>, i |-> 0, l |-> <<>>]
JStr(text) == [t |-> "str", s |-> text, i |-> 0, l |-> <<>>]
JInt(n) == [t |-> "int", s |-> <<>>, i |-> n, l |-> <<>>]
JBool(b) == [t |-> "bool", s |-> <<>>, i |-> IF b THEN 1 ELSE 0, l |-> <<>>]
JList(items) == [t |-> "list", s |-> <<>>, i |-> 0, l |-> items]

EmptyDict == [k \in {} |-> JNull]

Whitespace == {" ", "\t"}
Chars == {"a"} \cup Whitespace

RECURSIVE LStrip(_)
LStrip(text) ==
  IF text # <<>> /\ Head(text) \in Whitespace THEN LStrip(Tail(text)) ELSE text

RECURSIVE RStrip(_)
RStrip(text) ==
  IF text # <<>> /\ text[Len(text)] \in Whitespace
    THEN RStrip(SubSeq(text, 1, Len(text) - 1))
    ELSE text

\* str.strip()
Strip(text) == RStrip(LStrip(text))

\* ",".join(items)
RECURSIVE Join(_)
Join(items) ==
  IF items = <<>> THEN <<>>
  ELSE IF Len(items) = 1 THEN items[1]
  ELSE items[1] \o <<",">> \o Join(Tail(items))

\* ------------------------------------------------------ validators
\* utils/validators.py: each returns NoError or the validation error raised.
\* What an operation hands to its caller: the value returned (kind "ok") or
\* the exception raised, with the status code and the message it carries.
NoError == [kind |-> "none", status |-> NoStatus, msg |-> <<>>, value |-> <<>>]
Raised(kind, status, msg) == [kind |-> kind, status |-> status, msg |-> msg, value |-> <<>>]
ReturnedValue(v) == [kind |-> "ok", status |-> NoStatus, msg |-> <<>>, value |-> v]

MTGValidationError(msg) == Raised("MTGValidationError", NoStatus, <<msg>>)

validate_card_name_no_strip(name) ==
  IF name = <<>> THEN MTGValidationError("Card name cannot be empty") ELSE NoError
validate_card_name(name) ==
  IF Strip(name) = <<>> THEN MTGValidationError("Card name cannot be empty") ELSE NoError

validate_card_id(card_id) ==
  IF Strip(card_id) = <<>> THEN MTGValidationError("Card ID cannot be empty") ELSE NoError

validate_search_limit_exclusive(limit) ==
  IF ~(1 < limit /\ limit < 50)
    THEN MTGValidationError("Limit must be between 1 and 50") ELSE NoError
validate_search_limit(limit) ==
  IF ~(1 <= limit /\ limit <= 50)
    THEN MTGValidationError("Limit must be between 1 and 50") ELSE NoError

validate_filter_limit(limit) ==
  IF ~(1 <= limit /\ limit <= 100)
    THEN MTGValidationError("Limit must be between 1 and 100") ELSE NoError

validate_random_count(count) ==
  IF ~(1 <= count /\ count <= 10)
    THEN MTGValidationError("Count must be between 1 and 10") ELSE NoError

\* ------------------------------------------------------ parameter builders
\* utils/param_processors.py: a dict is a function from its keys to values.
build_search_params(name, limit) ==
  [k \in {"name", "pageSize"} |-> IF k = "name" THEN JStr(name) ELSE JInt(limit)]

build_filter_params_no_join(filters, limit) ==
  [k \in {"pageSize"} \cup DOMAIN filters |->
     IF k \in DOMAIN filters THEN filters[k] ELSE JInt(limit)]
build_filter_params(filters, limit) ==
  [k \in {"pageSize"} \cup DOMAIN filters |->
     IF k \in DOMAIN filters
       THEN IF k = "colors" /\ filters[k].t = "list"
              THEN JStr(Join(filters[k].l))
              ELSE filters[k]
       ELSE JInt(limit)]

build_random_params(count) ==
  [k \in {"random", "pageSize"} |-> IF k = "random" THEN JStr(<<"true">>) ELSE JInt(count)]

\* ------------------------------------------------------ operations, pure part
\* A call of a client operation: op, its string argument (name, card_id or
\* set_code; JNull when omitted), its integer argument (limit or count) and,
\* for filter_cards, the keyword arguments (which may hold "limit").
NoCall == [op |-> "none", str |-> JNull, num |-> 0, filters |-> EmptyDict]
search_cards(name, limit) == [op |-> "search_cards", str |-> JStr(name), num |-> limit, filters |-> EmptyDict]
get_card(card_id) == [op |-> "get_card", str |-> JStr(card_id), num |-> 0, filters |-> EmptyDict]
filter_cards(filters) == [op |-> "filter_cards", str |-> JNull, num |-> 0, filters |-> filters]
get_sets(set_code) == [op |-> "get_sets", str |-> set_code, num |-> 0, filters |-> EmptyDict]
get_random_cards(count) == [op |-> "get_random_cards", str |-> JNull, num |-> count, filters |-> EmptyDict]
close == [op |-> "close", str |-> JNull, num |-> 0, filters |-> EmptyDict]

\* filters.pop("limit", 20)
PopLimit(filters) == IF "limit" \in DOMAIN filters THEN filters["limit"].i ELSE 20
WithoutLimit(filters) == [k \in DOMAIN filters \ {"limit"} |-> filters[k]]

\* `if set_code:` - None and the empty string are falsy.
\* The truth value Python gives a value in `if value:`.
Truthy(v) ==
  \/ v.t = "str" /\ v.s # <<>>
  \/ v.t = "list" /\ v.l # <<>>
  \/ v.t \in {"int", "bool"} /\ v.i # 0

NoRequest == [err |-> NoError, endpoint |-> <<>>, hasParams |-> FALSE, params |-> EmptyDict]
Rejected(err) == [err |-> err, endpoint |-> <<>>, hasParams |-> FALSE, params |-> EmptyDict]
Request(endpoint, params) == [err |-> NoError, endpoint |-> endpoint, hasParams |-> TRUE, params |-> params]
RequestNoParams(endpoint) == [err |-> NoError, endpoint |-> endpoint, hasParams |-> FALSE, params |-> EmptyDict]

\* The synchronous prefix of each operation, up to its call of
\* _make_request: the validation error raised, or the request handed over.
Prepare(c) ==
  IF c.op = "search_cards" THEN
    IF validate_card_name(c.str.s) # NoError THEN Rejected(validate_card_name(c.str.s))
    ELSE IF validate_search_limit(c.num) # NoError THEN Rejected(validate_search_limit(c.num))
    ELSE Request(<<"/cards">>, build_search_params(c.str.s, c.num))
  ELSE IF c.op = "get_card" THEN
    IF validate_card_id(c.str.s) # NoError THEN Rejected(validate_card_id(c.str.s))
    ELSE RequestNoParams(<<"/cards/">> \o c.str.s)
  ELSE IF c.op = "filter_cards" THEN
    IF validate_filter_limit(PopLimit(c.filters)) # NoError
      THEN Rejected(validate_filter_limit(PopLimit(c.filters)))
      ELSE Request(<<"/cards">>, build_filter_params(WithoutLimit(c.filters), PopLimit(c.filters)))
  ELSE IF c.op = "get_sets" THEN
    IF Truthy(c.str) THEN RequestNoParams(<<"/sets/">> \o c.str.s)
    ELSE RequestNoParams(<<"/sets">>)
  ELSE IF validate_random_count(c.num) # NoError THEN Rejected(validate_random_count(c.num))
  ELSE Request(<<"/cards">>, build_random_params(c.num))

\* ------------------------------------------------------ upstream documents
\* The JSON objects upstream serves.  Upstream card and set objects are
\* sparse dicts; body 1 parses to the empty object and body b > 1 to an
\* envelope holding b-1 cards and sets under "cards" and "sets", and the
\* last of them under "card" and "set".
UpCard(i) ==
  ("id" :> JStr(<<ToString(i)>>)) @@ ("name" :> JStr(<<"card ", ToString(i)>>))
  @@ (IF i % 2 = 0 THEN "cmc" :> JInt(i) ELSE EmptyDict)

UpSet(i) ==
  ("code" :> JStr(<<"S", ToString(i)>>))
  @@ (IF i % 2 = 0 THEN "name" :> JStr(<<"set ", ToString(i)>>) ELSE EmptyDict)

Doc(b) ==
  IF b = 1
    THEN [keys |-> {}, cards |-> <<>>, card |-> EmptyDict, sets |-> <<>>, set |-> EmptyDict]
    ELSE [keys |-> {"cards", "card", "sets", "set"},
          cards |-> [i \in 1..(b - 1) |-> UpCard(i)], card |-> UpCard(b - 1),
          sets |-> [i \in 1..(b - 1) |-> UpSet(i)], set |-> UpSet(b - 1)]

\* ------------------------------------------------------ data converters
\* api_data.get(key, default)
Get(d, key, default) == IF key \in DOMAIN d THEN d[key] ELSE default

convert_card_data_snake_case(d) ==
  [id |-> Get(d, "id", JStr(<<>>)),
   name |-> Get(d, "name", JStr(<<>>)),
   mana_cost |-> Get(d, "mana_cost", JNull),
   cmc |-> Get(d, "cmc", JNull),
   colors |-> Get(d, "colors", JList(<<>>)),
   color_identity |-> Get(d, "color_identity", JList(<<>>)),
   type |-> Get(d, "type", JNull),
   supertypes |-> Get(d, "supertypes", JList(<<>>)),
   types |-> Get(d, "types", JList(<<>>)),
   subtypes |-> Get(d, "subtypes", JList(<<>>)),
   text |-> Get(d, "text", JNull),
   power |-> Get(d, "power", JNull),
   toughness |-> Get(d, "toughness", JNull),
   loyalty |-> Get(d, "loyalty", JNull),
   set_name |-> Get(d, "set_name", JNull),
   set_code |-> Get(d, "set_code", JNull),
   rarity |-> Get(d, "rarity", JNull),
   image_url |-> Get(d, "image_url", JNull)]

convert_card_data(d) ==
  [id |-> Get(d, "id", JStr(<<>>)),
   name |-> Get(d, "name", JStr(<<>>)),
   mana_cost |-> Get(d, "manaCost", JNull),
   cmc |-> Get(d, "cmc", JNull),
   colors |-> Get(d, "colors", JList(<<>>)),
   color_identity |-> Get(d, "colorIdentity", JList(<<>>)),
   type |-> Get(d, "type", JNull),
   supertypes |-> Get(d, "supertypes", JList(<<>>)),
   types |-> Get(d, "types", JList(<<>>)),
   subtypes |-> Get(d, "subtypes", JList(<<>>)),
   text |-> Get(d, "text", JNull),
   power |-> Get(d, "power", JNull),
   toughness |-> Get(d, "toughness", JNull),
   loyalty |-> Get(d, "loyalty", JNull),
   set_name |-> Get(d, "setName", JNull),
   set_code |-> Get(d, "set", JNull),
   rarity |-> Get(d, "rarity", JNull),
   image_url |-> Get(d, "imageUrl", JNull)]

convert_set_data(d) ==
  [code |-> Get(d, "code", JStr(<<>>)),
   name |-> Get(d, "name", JStr(<<>>)),
   type |-> Get(d, "type", JNull),
   release_date |-> Get(d, "releaseDate", JNull),
   block |-> Get(d, "block", JNull),
   online_only |-> Get(d, "onlineOnly", JBool(FALSE)),
   card_count |-> Get(d, "cardCount", JNull)]

\* ------------------------------------------------------ tool handlers, pure part
\* str(value) as an f-string renders it, and ', '.join(list).
RECURSIVE CommaJoin(_)
CommaJoin(items) ==
  IF items = <<>> THEN <<>>
  ELSE IF Len(items) = 1 THEN items[1]
  ELSE items[1] \o <<", ">> \o CommaJoin(Tail(items))

Str(v) ==
  IF v.t = "str" THEN v.s
  ELSE IF v.t = "int" THEN <<ToString(v.i)>>
  ELSE IF v.t = "bool" THEN <<IF v.i = 1 THEN "True" ELSE "False">>
  ELSE IF v.t = "list" THEN CommaJoin(v.l)
  ELSE <<"None">>

\* `if cond: result_lines.append(line)`
LineIf(cond, line) == IF cond THEN <<line>> ELSE <<>>

\* get_card_details_handler after the client returned card: the lines joined into the output.
card_details_lines(card) ==
  <<(<<"**">> \o Str(card.name) \o <<"**\n">>)>>
  \o <<(<<"ID: ">> \o Str(card.id))>>
  \o LineIf(Truthy(card.mana_cost), <<"Mana Cost: ">> \o Str(card.mana_cost))
  \o LineIf(card.cmc # JNull, <<"Converted Mana Cost: ">> \o Str(card.cmc))
  \o LineIf(Truthy(card.colors), <<"Colors: ">> \o Str(card.colors))
  \o LineIf(Truthy(card.color_identity), <<"Color Identity: ">> \o Str(card.color_identity))
  \o LineIf(Truthy(card.type), <<"Type: ">> \o Str(card.type))
  \o LineIf(Truthy(card.supertypes), <<"Supertypes: ">> \o Str(card.supertypes))
  \o LineIf(Truthy(card.types), <<"Types: ">> \o Str(card.types))
  \o LineIf(Truthy(card.subtypes), <<"Subtypes: ">> \o Str(card.subtypes))
  \o LineIf(card.power # JNull /\ card.toughness # JNull,
            <<"Power/Toughness: ">> \o Str(card.power) \o <<"/">> \o Str(card.toughness))
  \o LineIf(card.loyalty # JNull, <<"Loyalty: ">> \o Str(card.loyalty))
  \o LineIf(Truthy(card.text), <<"Text: ">> \o Str(card.text))
  \o LineIf(Truthy(card.set_name),
            <<"Set: ">> \o Str(card.set_name)
            \o (IF Truthy(card.set_code) THEN <<" (">> \o Str(card.set_code) \o <<")">> ELSE <<>>))
  \o LineIf(Truthy(card.rarity), <<"Rarity: ">> \o Str(card.rarity))
  \o LineIf(Truthy(card.image_url), <<"Image URL: ">> \o Str(card.image_url))

\* What a handler does with its arguments before it formats anything: it
\* raises, or it calls one operation of the client.
HandlerRaised(kind, msg) == [err |-> Raised(kind, NoStatus, <<msg>>), call |-> NoCall]
ClientCalled(c) == [err |-> NoError, call |-> c]

\* isinstance(limit, int): bool is a subclass of int.
IsInstanceInt(v) == v.t \in {"int", "bool"}

\* `if not value or not value.strip()` on a required argument.
EmptyArgument(v) == ~Truthy(v) \/ (v.t = "str" /\ Strip(v.s) = <<>>)

search_cards_handler(args) ==
  IF "name" \notin DOMAIN args THEN HandlerRaised("ValueError", "name parameter is required")
  ELSE IF EmptyArgument(args["name"])
    THEN HandlerRaised("ValueError", "name parameter cannot be empty")
  ELSE IF args["name"].t # "str" THEN HandlerRaised("AttributeError", "strip")
  ELSE IF ~IsInstanceInt(Get(args, "limit", JInt(10)))
    THEN HandlerRaised("ValueError", "limit parameter must be an integer")
  ELSE ClientCalled(search_cards(args["name"].s, Get(args, "limit", JInt(10)).i))

filter_cards_handler(args) ==
  IF ~IsInstanceInt(Get(args, "limit", JInt(20)))
    THEN HandlerRaised("ValueError", "limit parameter must be an integer")
    ELSE ClientCalled(filter_cards(("limit" :> Get(args, "limit", JInt(20)))
                                   @@ [k \in DOMAIN args \ {"limit"} |-> args[k]]))

get_card_details_handler(args) ==
  IF "card_id" \notin DOMAIN args
    THEN HandlerRaised("ValueError", "card_id parameter is required")
  ELSE IF EmptyArgument(args["card_id"])
    THEN HandlerRaised("ValueError", "card_id parameter cannot be empty")
  ELSE IF args["card_id"].t # "str" THEN HandlerRaised("AttributeError", "strip")
  ELSE ClientCalled(get_card(args["card_id"].s))

Handle(a) ==
  IF a.tool = "search_cards" THEN search_cards_handler(a.args)
  ELSE IF a.tool = "filter_cards" THEN filter_cards_handler(a.args)
  ELSE get_card_details_handler(a.args)

\* ------------------------------------------------------ operations, after the request
\* The message each raise statement of _make_request gives its exception.
RaiseMessage(r) ==
  IF r.kind = "MTGAPINotFoundError" THEN <<"Resource not found">>
  ELSE IF r.kind = "MTGAPIRateLimitError" THEN <<"Rate limit exceeded, please try again later">>
  ELSE IF r.kind = "MTGAPIServerError" THEN <<"MTG API service unavailable">>
  ELSE IF r.kind = "MTGAPITimeoutError" THEN <<"MTG API request timed out">>
  ELSE IF r.kind = "MTGAPIConnectionError" THEN <<"Unable to connect to MTG API">>
  ELSE IF r.status # NoStatus THEN <<"API request failed: ", ToString(r.status)>>
  ELSE <<"Unexpected error: ">>

\* The loop `for x in response.get(key, []): out.append(convert(x))`.
CardList(items) == [i \in 1..Len(items) |-> convert_card_data(items[i])]
SetListReversed(items) == [i \in 1..Len(items) |-> convert_set_data(items[Len(items) + 1 - i])]
SetList(items) == [i \in 1..Len(items) |-> convert_set_data(items[i])]

CardsResult(doc) == ReturnedValue(CardList(IF "cards" \in doc.keys THEN doc.cards ELSE <<>>))

GetCardResult(c, doc) ==
  IF "card" \notin doc.keys \/ doc.card = EmptyDict
    THEN Raised("MTGAPINotFoundError", 404, <<"Card with ID ">> \o c.str.s \o <<" not found">>)
    ELSE ReturnedValue(<<convert_card_data(doc.card)>>)

GetSetsResult(c, doc) ==
  IF Truthy(c.str)
    THEN IF "set" \notin doc.keys \/ doc.set = EmptyDict
           THEN Raised("MTGAPINotFoundError", 404, <<"Set with code ">> \o c.str.s \o <<" not found">>)
           ELSE ReturnedValue(<<convert_set_data(doc.set)>>)
    ELSE ReturnedValue(SetList(IF "sets" \in doc.keys THEN doc.sets ELSE <<>>))

\* What operation c does with the outcome r of its _make_request: an
\* exception propagates unchanged, a body is converted into the result.
Finalize(c, r) ==
  IF r.kind = "None" THEN Raised("AttributeError", NoStatus, <<>>)
  ELSE IF r.kind = "ok" /\ r.body = NotAnObject THEN Raised("AttributeError", NoStatus, <<>>)
  ELSE IF r.kind # "ok" THEN Raised(r.kind, r.status, RaiseMessage(r))
  ELSE IF c.op = "get_card" THEN GetCardResult(c, Doc(r.body))
  ELSE IF c.op = "get_sets" THEN GetSetsResult(c, Doc(r.body))
  ELSE CardsResult(Doc(r.body))

\* ------------------------------------------------------ inputs
RECURSIVE Texts(_)
Texts(n) ==
  IF n = 0 THEN {<<>>}
  ELSE Texts(n - 1) \cup {Append(t, ch) : t \in {u \in Texts(n - 1) : Len(u) = n - 1}, ch \in Chars}

IntsAround(hi) == (1 - IntSlack)..(hi + IntSlack)

Colors == {<<"Red">>, <<"Blue">>}
ColorLists == {<<>>} \cup {<<a>> : a \in Colors} \cup {<<a, b>> : a \in Colors, b \in Colors}

DictsFor(key, values) == {EmptyDict} \cup {key :> v : v \in values}

FilterDicts ==
  {a @@ b @@ c @@ d :
     a \in DictsFor("colors", {JList(l) : l \in ColorLists} \cup {JStr(<<"Red">>)}),
     b \in DictsFor("type", {JStr(<<"Instant">>)}),
     c \in DictsFor("pageSize", {JInt(7)}),
     d \in DictsFor("limit", {JInt(n) : n \in IntsAround(100)})}

\* Every call the validation and parameter-building claims range over.
PrepareCalls ==
  {search_cards(name, n) : name \in Texts(MaxLen), n \in IntsAround(50)}
  \cup {get_card(id) : id \in Texts(MaxLen)}
  \cup {filter_cards(f) : f \in FilterDicts}
  \cup {get_sets(code) : code \in {JNull} \cup {JStr(t) : t \in Texts(MaxLen)}}
  \cup {get_random_cards(n) : n \in IntsAround(10)}

\* The upstream objects the converters are applied to: every key carries a
\* value of its own, and at most MaxSparse keys are present, or missing.
CardKeys ==
  {"id", "name", "manaCost", "cmc", "colors", "colorIdentity", "type", "supertypes",
   "types", "subtypes", "text", "power", "toughness", "loyalty", "setName", "set",
   "rarity", "imageUrl"}
SetKeys == {"code", "name", "type", "releaseDate", "block", "onlineOnly", "cardCount"}
ListKeys == {"colors", "colorIdentity", "supertypes", "types", "subtypes"}

UpValue(key) ==
  IF key \in ListKeys THEN JList(<<<<key>>, <<"x">>>>)
  ELSE IF key = "cmc" THEN JInt(0)
  ELSE IF key = "cardCount" THEN JInt(295)
  ELSE IF key = "onlineOnly" THEN JBool(TRUE)
  ELSE JStr(<<"v:", key>>)

Sparse(keys) ==
  {K \in SUBSET keys : Cardinality(K) <= MaxSparse \/ Cardinality(keys \ K) <= MaxSparse}

UpstreamObjects ==
  {[kind |-> "card", data |-> [k \in K |-> UpValue(k)]] : K \in Sparse(CardKeys)}
  \cup {[kind |-> "set", data |-> [k \in K |-> UpValue(k)]] : K \in Sparse(SetKeys)}

\* The arguments the tool handlers are called with: required arguments
\* missing, null, blank or given, limits of every JSON type.
LimitValues ==
  {JInt(n) : n \in {0, 1, 50, 51, 100, 101}}
  \cup {JStr(<<"5">>), JNull, JBool(TRUE), JList(<<>>)}

HandlerInputs ==
  {[tool |-> "search_cards", args |-> a @@ b] :
     a \in DictsFor("name", {JNull, JInt(5)} \cup {JStr(t) : t \in Texts(MaxLen)}),
     b \in DictsFor("limit", LimitValues)}
  \cup {[tool |-> "filter_cards", args |-> a @@ b] :
     a \in DictsFor("type", {JStr(<<"Instant">>)}),
     b \in DictsFor("limit", LimitValues)}
  \cup {[tool |-> "get_card_details", args |-> a] :
     a \in DictsFor("card_id", {JNull} \cup {JStr(t) : t \in Texts(MaxLen)})}

\* ------------------------------------------------------ state
VARIABLES
  pc,          \* pc[p]: "idle", "throttle", "inflight", "sleep", "closing", "done"
  attempt,     \* attempt[p]: the loop variable of the retry loop
  wake,        \* wake[p]: time at which the backoff sleep of p ends
  sent,        \* sent[p]: HTTP attempts sent by the current call of p
  acquired,    \* acquired[p]: throttle slots acquired by the current call of p
  waited,      \* waited[p]: backoff waits started by the current call of p
  backoffs,    \* backoffs[p]: the durations passed to asyncio.sleep by the call, in order
  hist,        \* hist[p]: outcomes received by the current call of p, in order
  result,      \* result[p]: what the current call returned or raised
  session,     \* the client's _session: FALSE is None
  created,     \* sessions constructed so far; the one in _session is the latest
  released,    \* the sessions on which aclose() has been called
  using,       \* using[p]: the session the call of p holds in its local, 0 for none
  task_logs,   \* the throttle's log of acquisition times
  now,         \* the clock
  sends,       \* HTTP requests that left the process at time now (cur) and now-1 (prev)
  calls,       \* calls of _make_request started so far
  callers,     \* the coroutines that call into the client
  upstream,    \* the outcomes upstream can produce
  budget,      \* the number of calls the callers issue
  requests,    \* the calls of client operations the callers may make
  call,        \* call[p]: the operation p is in, with its arguments
  request,     \* request[p]: what the operation handed to _make_request, or its rejection
  reply,       \* reply[p]: what the operation returned or raised to p
  api_data,    \* the upstream object handed to a data converter
  converted,   \* the Card or Set the converter made of it
  result_lines,\* the lines a tool handler has formatted
  arguments,   \* the tool and the arguments a tool handler is called with
  handled      \* what the handler did with them: the error raised or the client call made

vars == <<pc, attempt, wake, sent, acquired, waited, backoffs, hist, result, session,
          created, released, using, task_logs, now, sends, calls, callers, upstream, budget, requests,
          call, request, reply, api_data, converted, result_lines, arguments, handled>>

scenario == <<callers, upstream, budget, requests>>

opvars == <<call, request, reply>>

sessvars == <<created, released, using>>

toolvars == <<api_data, converted, result_lines, arguments, handled>>

ClientIdle ==
  /\ pc = [p \in Procs |-> "idle"]
  /\ attempt = [p \in Procs |-> 0]
  /\ wake = [p \in Procs |-> 0]
  /\ sent = [p \in Procs |-> 0]
  /\ acquired = [p \in Procs |-> 0]
  /\ waited = [p \in Procs |-> 0]
  /\ backoffs = [p \in Procs |-> <<>>]
  /\ hist = [p \in Procs |-> <<>>]
  /\ result = [p \in Procs |-> NoResult]
  /\ session = FALSE
  /\ created = 0
  /\ released = {}
  /\ using = [p \in Procs |-> 0]
  /\ task_logs = <<>>
  /\ now = 0
  /\ sends = [prev |-> 0, cur |-> 0]
  /\ calls = 0
  /\ call = [p \in Procs |-> NoCall]
  /\ request = [p \in Procs |-> NoRequest]
  /\ reply = [p \in Procs |-> NoError]

\* No converter and no tool handler has run.
NoRecord == [kind |-> "none"]
NoArguments == [tool |-> "none", args |-> EmptyDict]
NotHandled == [err |-> NoError, call |-> NoCall]

ToolsIdle ==
  /\ api_data = [kind |-> "none", data |-> EmptyDict]
  /\ converted = NoRecord
  /\ result_lines = <<>>
  /\ arguments = NoArguments
  /\ handled = NotHandled

InitClient == ClientIdle /\ ToolsIdle

\* One caller issuing its calls one after the other, any upstream outcome.
Init ==
  /\ InitClient
  /\ callers = {1}
  /\ upstream = Outcomes
  /\ budget = SeqCalls
  /\ requests = {search_cards(<<"a">>, 10)}

\* All callers concurrently, upstream answering 200 or 5xx.
InitConc ==
  /\ InitClient
  /\ callers = Procs
  /\ upstream = OverloadOutcomes
  /\ budget = ConcCalls
  /\ requests = {search_cards(<<"a">>, 10)}

\* ------------------------------------------------------ actions
SendAttemptTwice(p) ==
  /\ sent' = [sent EXCEPT ![p] = @ + 2]
  /\ sends' = [sends EXCEPT !.cur = @ + 2]
\* session.request(...) is called: one HTTP attempt leaves the process,
\* unless the session has been closed, which makes the call raise.
SendAttempt(p) ==
  /\ sent' = [sent EXCEPT ![p] = @ + 1]
  /\ sends' = IF using[p] \in released THEN sends ELSE [sends EXCEPT !.cur = @ + 1]

\* _get_session: the session _make_request works with, a new one when the
\* client has none.
get_session_stale == IF created = 0 THEN 1 ELSE created
get_session == IF session THEN created ELSE created + 1

\* _make_request up to its first suspension: _get_session, then the
\* throttle's acquire; with a free slot the first attempt is sent at once.
StartRequest(p) ==
  /\ p \in callers
  /\ pc[p] = "idle"
  /\ calls < budget
  /\ calls' = calls + 1
  /\ session' = TRUE
  /\ created' = get_session
  /\ using' = [using EXCEPT ![p] = get_session]
  /\ released' = released
  /\ LET logs == Flush(task_logs, now)
     IN IF Len(logs) < RateLimit
          THEN /\ task_logs' = Append(logs, now)
               /\ acquired' = [acquired EXCEPT ![p] = 1]
               /\ sent' = [sent EXCEPT ![p] = 1]
               /\ sends' = IF get_session \in released
                             THEN sends ELSE [sends EXCEPT !.cur = @ + 1]
               /\ pc' = [pc EXCEPT ![p] = "inflight"]
          ELSE /\ task_logs' = logs
               /\ acquired' = [acquired EXCEPT ![p] = 0]
               /\ sent' = [sent EXCEPT ![p] = 0]
               /\ sends' = sends
               /\ pc' = [pc EXCEPT ![p] = "throttle"]
  /\ UNCHANGED <<attempt, wake, waited, backoffs, hist, result, now, scenario, toolvars>>

\* A caller invokes a client operation: it validates its arguments and
\* raises at once, or builds the request and enters _make_request.
CallOp(p, c) ==
  /\ c \in requests
  /\ call' = [call EXCEPT ![p] = c]
  /\ request' = [request EXCEPT ![p] = Prepare(c)]
  /\ IF Prepare(c).err # NoError
       THEN /\ p \in callers
            /\ pc[p] = "idle"
            /\ calls < budget
            /\ calls' = calls + 1
            /\ pc' = [pc EXCEPT ![p] = "done"]
            /\ reply' = [reply EXCEPT ![p] = Prepare(c).err]
            /\ UNCHANGED <<attempt, wake, sent, acquired, waited, backoffs, hist, result,
                           session, sessvars, task_logs, now, sends, scenario, toolvars>>
       ELSE /\ StartRequest(p)
            /\ reply' = reply

\* Throttler.acquire polling again: a slot has become free, the loop is
\* entered and the first attempt is sent.
AcquireSlot(p) ==
  /\ pc[p] = "throttle"
  /\ LET logs == Flush(task_logs, now)
     IN /\ Len(logs) < RateLimit
        /\ task_logs' = Append(logs, now)
  /\ acquired' = [acquired EXCEPT ![p] = @ + 1]
  /\ SendAttempt(p)
  /\ pc' = [pc EXCEPT ![p] = "inflight"]
  /\ UNCHANGED <<attempt, wake, waited, backoffs, hist, result, session, sessvars, now, calls,
                 scenario, toolvars, opvars>>

\* What session.request raises on a session that has been closed.
ClosedSession == [kind |-> "other", status |-> NoStatus, body |-> NoBody]

\* The awaited session.request completes with outcome o and the rest of
\* the loop iteration runs: return, raise, or start the backoff sleep.
Receive(p, o) ==
  /\ pc[p] = "inflight"
  /\ o \in (IF using[p] \in released THEN {ClosedSession} ELSE upstream)
  /\ hist' = [hist EXCEPT ![p] = Append(@, o)]
  /\ LET s == AttemptStep(o, attempt[p])
     IN IF s.act = "retry"
          THEN /\ pc' = [pc EXCEPT ![p] = "sleep"]
               /\ wake' = [wake EXCEPT ![p] = now + Backoff(attempt[p])]
               /\ waited' = [waited EXCEPT ![p] = @ + 1]
               /\ backoffs' = [backoffs EXCEPT ![p] = Append(@, Backoff(attempt[p]))]
               /\ UNCHANGED <<result, reply>>
          ELSE /\ pc' = [pc EXCEPT ![p] = "done"]
               /\ result' = [result EXCEPT ![p] = s.exc]
               /\ reply' = [reply EXCEPT ![p] = Finalize(call[p], s.exc)]
               /\ UNCHANGED <<wake, waited, backoffs>>
  /\ UNCHANGED <<attempt, sent, acquired, session, sessvars, task_logs, now, sends, calls,
                 scenario, toolvars, call, request>>

\* The backoff sleep ends and `continue` starts the next iteration: the
\* next attempt is sent, or the loop is exhausted and the routine falls
\* off its end.
Wake(p) ==
  /\ pc[p] = "sleep"
  /\ now >= wake[p]
  /\ attempt' = [attempt EXCEPT ![p] = NextAttempt(@)]
  /\ wake' = [wake EXCEPT ![p] = 0]
  /\ IF NextAttempt(attempt[p]) < MaxAttempts
       THEN /\ SendAttempt(p)
            /\ pc' = [pc EXCEPT ![p] = "inflight"]
            /\ UNCHANGED <<result, reply>>
       ELSE /\ pc' = [pc EXCEPT ![p] = "done"]
            /\ result' = [result EXCEPT ![p] = ReturnedNone]
            /\ reply' = [reply EXCEPT ![p] = Finalize(call[p], ReturnedNone)]
            /\ UNCHANGED <<sent, sends>>
  /\ UNCHANGED <<acquired, waited, backoffs, hist, session, sessvars, task_logs, now, calls,
                 scenario, toolvars, call, request>>

\* The caller takes the result (or the exception); the locals of the call
\* are gone and the caller is free to call again.
Finish(p) ==
  /\ pc[p] = "done"
  /\ pc' = [pc EXCEPT ![p] = "idle"]
  /\ attempt' = [attempt EXCEPT ![p] = 0]
  /\ sent' = [sent EXCEPT ![p] = 0]
  /\ acquired' = [acquired EXCEPT ![p] = 0]
  /\ waited' = [waited EXCEPT ![p] = 0]
  /\ backoffs' = [backoffs EXCEPT ![p] = <<>>]
  /\ hist' = [hist EXCEPT ![p] = <<>>]
  /\ result' = [result EXCEPT ![p] = NoResult]
  /\ call' = [call EXCEPT ![p] = NoCall]
  /\ request' = [request EXCEPT ![p] = NoRequest]
  /\ reply' = [reply EXCEPT ![p] = NoError]
  /\ using' = [using EXCEPT ![p] = 0]
  /\ UNCHANGED <<wake, session, created, released, task_logs, now, sends, calls, scenario, toolvars>>

\* A coroutine is suspended until a time that has not come yet: in
\* asyncio.sleep, or in the throttle with no free slot.
TimeAwaited ==
  \E p \in Procs :
    \/ pc[p] = "sleep" /\ wake[p] > now
    \/ pc[p] = "throttle" /\ Len(Flush(task_logs, now)) >= RateLimit

\* One time-unit passes.
Tick ==
  /\ now < MaxTime
  /\ now' = now + 1
  /\ sends' = [prev |-> sends.cur, cur |-> 0]
  /\ UNCHANGED <<pc, attempt, wake, sent, acquired, waited, backoffs, hist, result,
                 session, sessvars, task_logs, calls, scenario, toolvars, opvars>>

Next ==
  \/ \E p \in Procs : \E c \in requests : CallOp(p, c)
  \/ \E p \in Procs : AcquireSlot(p)
  \/ \E p \in Procs : \E o \in Outcomes : Receive(p, o)
  \/ \E p \in Procs : Wake(p)
  \/ \E p \in Procs : Finish(p)
  \/ Tick

Spec == Init /\ [][Next]_vars

SpecConc == InitConc /\ [][Next]_vars

\* The operations of the client called one after the other, with valid and
\* invalid arguments, against an upstream that serves every document.
OpsOutcomes ==
  {o \in HttpOutcomes : o.status \in {200, 404, 500}}

OpsRequests ==
  {search_cards(<<"a">>, 1), search_cards(<<" ">>, 1), search_cards(<<>>, 1),
   search_cards(<<"a">>, 0), search_cards(<<"a">>, 51),
   get_card(<<"a">>), get_card(<<"\t">>),
   filter_cards(EmptyDict), filter_cards("limit" :> JInt(101)),
   get_sets(JNull), get_sets(JStr(<<>>)), get_sets(JStr(<<"a">>)),
   get_random_cards(1), get_random_cards(10), get_random_cards(11)}

InitOps ==
  /\ InitClient
  /\ callers = {1}
  /\ upstream = OpsOutcomes
  /\ budget = OpsCalls
  /\ requests = OpsRequests

\* With fewer calls than the throttle has slots no call ever waits for a
\* slot, so AcquireSlot is never enabled and is left out.
NextOps ==
  \/ \E p \in Procs : \E c \in requests : CallOp(p, c)
  \/ \E p \in Procs : \E o \in Outcomes : Receive(p, o)
  \/ \E p \in Procs : Wake(p)
  \/ \E p \in Procs : Finish(p)
  \/ Tick

SpecOps == InitOps /\ [][NextOps]_vars

\* The operations against every outcome upstream can produce, a 200 with
\* a body that is not an object included.
InitTaxonomy ==
  /\ InitClient
  /\ callers = {1}
  /\ upstream = Outcomes \cup {ArrayBody}
  /\ budget = OpsCalls
  /\ requests = {search_cards(<<"a">>, 1), search_cards(<<>>, 1), get_card(<<"a">>),
                 get_sets(JNull), get_random_cards(11)}

NextTaxonomy ==
  \/ \E p \in Procs : \E c \in requests : CallOp(p, c)
  \/ \E p \in Procs : \E o \in upstream : Receive(p, o)
  \/ \E p \in Procs : Wake(p)
  \/ \E p \in Procs : Finish(p)
  \/ Tick

SpecTaxonomy == InitTaxonomy /\ [][NextTaxonomy]_vars

\* One caller, any upstream outcome, and the scheduling the event loop
\* gives: an awaited request completes (the session has a timeout), a
\* sleeping coroutine is resumed once its time has come, and time passes.
InitLive ==
  /\ InitClient
  /\ callers = {1}
  /\ upstream = Outcomes
  /\ budget = LiveCalls
  /\ requests = {search_cards(<<"a">>, 10)}

\* Past MaxTime the clock advances as long as a coroutine waits for it.
Elapse ==
  /\ now >= MaxTime
  /\ TimeAwaited
  /\ now' = now + 1
  /\ sends' = [prev |-> sends.cur, cur |-> 0]
  /\ UNCHANGED <<pc, attempt, wake, sent, acquired, waited, backoffs, hist, result,
                 session, sessvars, task_logs, calls, scenario, toolvars, opvars>>

NextLive == NextOps \/ Elapse

Fairness ==
  /\ WF_vars(Tick)
  /\ WF_vars(Elapse)
  /\ \A p \in Procs : WF_vars(Wake(p))
  /\ \A p \in Procs : WF_vars(\E o \in Outcomes : Receive(p, o))

SpecLive == InitLive /\ [][NextLive]_vars /\ Fairness

\* The synchronous prefix of the operations alone, on every call of
\* PrepareCalls: validation and parameter building are pure functions.
InitPrepare ==
  /\ InitClient
  /\ callers = {1}
  /\ upstream = {}
  /\ budget = 1
  /\ requests \in {{c} : c \in PrepareCalls}

PrepareOnly(p, c) ==
  /\ p \in callers
  /\ pc[p] = "idle"
  /\ c \in requests
  /\ call[p] = NoCall
  /\ call' = [call EXCEPT ![p] = c]
  /\ request' = [request EXCEPT ![p] = Prepare(c)]
  /\ UNCHANGED <<pc, attempt, wake, sent, acquired, waited, backoffs, hist, result,
                 session, sessvars, task_logs, now, sends, calls, scenario, toolvars, reply>>

NextPrepare == \E p \in Procs : \E c \in requests : PrepareOnly(p, c)

SpecPrepare == InitPrepare /\ [][NextPrepare]_vars

\* The data converters and the formatting of get_card_details_handler on
\* every object of UpstreamObjects.
clientvars ==
  <<pc, attempt, wake, sent, acquired, waited, backoffs, hist, result, session, sessvars,
    task_logs, now, sends, calls, scenario, opvars>>

InitConvert ==
  /\ ClientIdle
  /\ callers = {}
  /\ upstream = {}
  /\ budget = 0
  /\ requests = {}
  /\ api_data \in UpstreamObjects
  /\ converted = NoRecord
  /\ result_lines = <<>>
  /\ arguments = NoArguments
  /\ handled = NotHandled

ConvertCard ==
  /\ api_data.kind = "card"
  /\ converted = NoRecord
  /\ converted' = [kind |-> "Card", rec |-> convert_card_data(api_data.data)]
  /\ UNCHANGED <<clientvars, api_data, result_lines, arguments, handled>>

ConvertSet ==
  /\ api_data.kind = "set"
  /\ converted = NoRecord
  /\ converted' = [kind |-> "Set", rec |-> convert_set_data(api_data.data)]
  /\ UNCHANGED <<clientvars, api_data, result_lines, arguments, handled>>

\* get_card_details_handler formats the card the client returned.
FormatCardDetails ==
  /\ converted.kind = "Card"
  /\ result_lines = <<>>
  /\ result_lines' = card_details_lines(converted.rec)
  /\ UNCHANGED <<clientvars, api_data, converted, arguments, handled>>

NextConvert == ConvertCard \/ ConvertSet \/ FormatCardDetails

SpecConvert == InitConvert /\ [][NextConvert]_vars

\* The tool handlers on every input of HandlerInputs, up to the end of the
\* synchronous prefix of the client operation they call.
InitHandlers ==
  /\ ClientIdle
  /\ callers = {1}
  /\ upstream = {}
  /\ budget = 1
  /\ requests = {}
  /\ api_data = [kind |-> "none", data |-> EmptyDict]
  /\ converted = NoRecord
  /\ result_lines = <<>>
  /\ arguments \in HandlerInputs
  /\ handled = NotHandled

HandleTool(p) ==
  /\ p \in callers
  /\ handled = NotHandled
  /\ handled' = Handle(arguments)
  /\ IF Handle(arguments).call # NoCall
       THEN /\ call' = [call EXCEPT ![p] = Handle(arguments).call]
            /\ request' = [request EXCEPT ![p] = Prepare(Handle(arguments).call)]
       ELSE UNCHANGED <<call, request>>
  /\ UNCHANGED <<pc, attempt, wake, sent, acquired, waited, backoffs, hist, result, session,
                 sessvars, task_logs, now, sends, calls, scenario, reply,
                 api_data, converted, result_lines, arguments>>

NextHandlers == \E p \in Procs : HandleTool(p)

SpecHandlers == InitHandlers /\ [][NextHandlers]_vars

\* close() up to its suspension: with a session, aclose() is called on it
\* and awaited; without one the routine returns at once.
CloseOp(p) ==
  /\ p \in callers
  /\ pc[p] = "idle"
  /\ calls < budget
  /\ calls' = calls + 1
  /\ call' = [call EXCEPT ![p] = close]
  /\ IF session
       THEN /\ released' = released \cup {created}
            /\ using' = [using EXCEPT ![p] = created]
            /\ pc' = [pc EXCEPT ![p] = "closing"]
            /\ reply' = reply
       ELSE /\ pc' = [pc EXCEPT ![p] = "done"]
            /\ reply' = [reply EXCEPT ![p] = ReturnedValue(<<>>)]
            /\ UNCHANGED <<released, using>>
  /\ UNCHANGED <<attempt, wake, sent, acquired, waited, backoffs, hist, result, session,
                 created, task_logs, now, sends, scenario, toolvars, request>>

\* aclose() has completed: close() sets _session to None and returns.
CloseDone(p) ==
  /\ pc[p] = "closing"
  /\ session' = FALSE
  /\ pc' = [pc EXCEPT ![p] = "done"]
  /\ reply' = [reply EXCEPT ![p] = ReturnedValue(<<>>)]
  /\ UNCHANGED <<attempt, wake, sent, acquired, waited, backoffs, hist, result, sessvars,
                 task_logs, now, sends, calls, scenario, toolvars, call, request>>

\* One caller mixing operations and close() calls, upstream answering 200
\* or 500.
CloseOutcomes ==
  {o \in HttpOutcomes : (o.status = 200 /\ o.body = NumBodies) \/ o.status = 500}

InitClose ==
  /\ InitClient
  /\ callers = {1}
  /\ upstream = CloseOutcomes
  /\ budget = CloseCalls
  /\ requests = {search_cards(<<"a">>, 1), get_card(<<>>)}

NextClose ==
  \/ \E p \in Procs : \E c \in requests : CallOp(p, c)
  \/ \E p \in Procs : CloseOp(p)
  \/ \E p \in Procs : CloseDone(p)
  \/ \E p \in Procs : \E o \in Outcomes : Receive(p, o)
  \/ \E p \in Procs : Wake(p)
  \/ \E p \in Procs : Finish(p)
  \/ Tick

SpecClose == InitClose /\ [][NextClose]_vars

\* All callers concurrently, mixing operations and close() calls.
InitCloseConc ==
  /\ InitClient
  /\ callers = Procs
  /\ upstream = CloseOutcomes
  /\ budget = CloseConcCalls
  /\ requests = {search_cards(<<"a">>, 1)}

SpecCloseConc == InitCloseConc /\ [][NextClose]_vars

TypeOK ==
  /\ pc \in [Procs -> {"idle", "throttle", "inflight", "sleep", "closing", "done"}]
  /\ now \in 0..(MaxTime + LiveCalls * (MaxAttempts + Period))
  /\ Len(task_logs) <= RateLimit

\* ------------------------------------------------------ properties
Last(h) == h[Len(h)]

\* The call of p has just received outcome-pattern: every outcome before the
\* last one was a status >= 500.
Only5xxBefore(h) == \A i \in 1..(Len(h) - 1) : Is5xx(h[i])
All5xx(h) == \A i \in 1..Len(h) : Is5xx(h[i])

\* The call of p ended at the attempt whose outcome is the last of hist[p]:
\* nothing was sent and no backoff was started after it.
EndedAtLast(p) ==
  /\ pc[p] = "done"
  /\ sent[p] = Len(hist[p])
  /\ waited[p] = Len(hist[p]) - 1

\* C1: whatever upstream answers, one call of _make_request sends at most
\* 3 HTTP attempts.
C1_AtMostThreeAttempts == \A p \in Procs : sent[p] <= 3

C1_Witness ==
  \E p \in Procs : pc[p] = "done" /\ sent[p] = 3 /\ result[p] = MTGAPIError(NoStatus)

\* C2 (as stated): a status >= 500 on attempt 1 or 2 is followed by a wait
\* and another attempt, and when the first k-1 attempts receive a status
\* >= 500 and the k-th receives 200, the call returns the body of the 200
\* response after exactly k attempts.
C2_Original ==
  \A p \in Procs :
    LET h == hist[p] IN
    /\ (h # <<>> /\ Len(h) < 3 /\ All5xx(h)) =>
          \/ pc[p] = "sleep" /\ sent[p] = Len(h) /\ waited[p] = Len(h)
          \/ pc[p] = "inflight" /\ sent[p] = Len(h) + 1 /\ waited[p] = Len(h)
    /\ (h # <<>> /\ Only5xxBefore(h) /\ Last(h).kind = "http" /\ Last(h).status = 200) =>
          /\ EndedAtLast(p)
          /\ result[p] = Returned(Last(h).body)

\* C2 (amended): a status >= 500 on attempt 1 or 2 is followed by a wait and
\* another attempt, and when the first k-1 attempts receive a status >= 500
\* and the k-th receives 200 with a body that parses, the call returns that
\* body after exactly k attempts.
C2_RetryOn5xxThenSuccess ==
  \A p \in Procs :
    LET h == hist[p] IN
    /\ (h # <<>> /\ Len(h) < 3 /\ All5xx(h)) =>
          \/ pc[p] = "sleep" /\ sent[p] = Len(h) /\ waited[p] = Len(h)
          \/ pc[p] = "inflight" /\ sent[p] = Len(h) + 1 /\ waited[p] = Len(h)
    /\ (h # <<>> /\ Only5xxBefore(h) /\ IsOk200(Last(h))) =>
          /\ EndedAtLast(p)
          /\ result[p] = Returned(Last(h).body)

C2_Witness ==
  \E p \in Procs :
    /\ pc[p] = "done" /\ Len(hist[p]) = 3
    /\ Is5xx(hist[p][1]) /\ Is5xx(hist[p][2]) /\ IsOk200(hist[p][3])
    /\ result[p] = Returned(2) /\ sent[p] = 3

\* C3: a response whose status is none of 200, 404, 429 and is below 500
\* ends the call at that attempt with the generic API error carrying that
\* status code: no retry, no backoff wait.
C3_OtherStatusFailsAtOnce ==
  \A p \in Procs :
    LET h == hist[p] IN
    (h # <<>> /\ Last(h).kind = "http" /\ Last(h).status \notin {200, 404, 429}
         /\ Last(h).status < 500) =>
       /\ EndedAtLast(p)
       /\ result[p] = MTGAPIError(Last(h).status)

\* C4: every HTTP attempt of a call, retries included, is preceded by its
\* own acquisition of a throttle slot.
C4_SlotPerAttempt == \A p \in Procs : sent[p] <= acquired[p]

\* C5: no more than 10 HTTP requests leave the process within any window of
\* 1 time-unit, retries of concurrent calls included.
C5_AtMostTenPerWindow == sends.prev + sends.cur <= 10

\* C6: when all three attempts receive a status >= 500 the call fails with
\* the server error carrying the status code of the last response, after
\* exactly 3 attempts; the server error is never raised after fewer.
C6_ServerErrorAfterThree ==
  \A p \in Procs :
    LET h == hist[p] IN
    /\ (Len(h) = 3 /\ All5xx(h)) =>
          /\ EndedAtLast(p)
          /\ sent[p] = 3
          /\ result[p] = [kind |-> "MTGAPIServerError", status |-> h[3].status, body |-> NoBody]
    /\ result[p].kind = "MTGAPIServerError" => (sent[p] = 3 /\ Len(h) = 3)

C6_Witness ==
  \E p \in Procs :
    /\ pc[p] = "done" /\ Len(hist[p]) = 3
    /\ hist[p][1].status = 500 /\ hist[p][2].status = 500 /\ hist[p][3].status = 503
    /\ result[p].kind = "MTGAPIServerError" /\ result[p].status = 503

\* C7 (as stated): whenever an attempt receives HTTP 200 the call ends at
\* that attempt and returns the response body.
C7_Original ==
  \A p \in Procs :
    LET h == hist[p] IN
    (h # <<>> /\ Last(h).kind = "http" /\ Last(h).status = 200) =>
       /\ EndedAtLast(p)
       /\ result[p] = Returned(Last(h).body)

\* C7 (amended): whenever an attempt receives HTTP 200 with a body that
\* parses, the call ends at that attempt: the parsed body is returned and no
\* further attempt and no backoff wait follows.
C7_Ok200EndsCall ==
  \A p \in Procs :
    LET h == hist[p] IN
    (h # <<>> /\ IsOk200(Last(h))) =>
       /\ EndedAtLast(p)
       /\ result[p] = Returned(Last(h).body)

C7_Witness ==
  \E p \in Procs :
    /\ pc[p] = "done" /\ Len(hist[p]) = 2
    /\ hist[p][1].kind = "other" /\ IsOk200(hist[p][2])
    /\ result[p] = Returned(1) /\ sent[p] = 2 /\ waited[p] = 1

\* C8: an attempt that receives HTTP 404 ends the call with the not-found
\* error and no further attempt; a 404 on the first attempt yields exactly
\* 1 attempt.
C8_NotFoundNoRetry ==
  \A p \in Procs :
    LET h == hist[p] IN
    (h # <<>> /\ Last(h).kind = "http" /\ Last(h).status = 404) =>
       /\ EndedAtLast(p)
       /\ result[p].kind = "MTGAPINotFoundError"
       /\ (Len(h) = 1 => sent[p] = 1)

C8_Witness ==
  \E p \in Procs :
    /\ pc[p] = "done" /\ Len(hist[p]) = 1 /\ hist[p][1].status = 404
    /\ result[p].kind = "MTGAPINotFoundError" /\ sent[p] = 1

\* C9: an attempt that receives HTTP 429 ends the call with the
\* rate-limited error and no further attempt.
C9_RateLimitedNoRetry ==
  \A p \in Procs :
    LET h == hist[p] IN
    (h # <<>> /\ Last(h).kind = "http" /\ Last(h).status = 429) =>
       /\ EndedAtLast(p)
       /\ result[p].kind = "MTGAPIRateLimitError"

C9_Witness ==
  \E p \in Procs :
    /\ pc[p] = "done" /\ Len(hist[p]) = 2
    /\ Is5xx(hist[p][1]) /\ hist[p][2].status = 429
    /\ result[p].kind = "MTGAPIRateLimitError" /\ sent[p] = 2

\* C10: an attempt that ends in a network timeout ends the call with the
\* timeout error and no further attempt; a timeout on the first attempt
\* yields exactly 1 attempt.
C10_TimeoutNoRetry ==
  \A p \in Procs :
    LET h == hist[p] IN
    (h # <<>> /\ Last(h).kind = "timeout") =>
       /\ EndedAtLast(p)
       /\ result[p].kind = "MTGAPITimeoutError"
       /\ (Len(h) = 1 => sent[p] = 1)

C10_Witness ==
  \E p \in Procs :
    /\ pc[p] = "done" /\ Len(hist[p]) = 1 /\ hist[p][1].kind = "timeout"
    /\ result[p].kind = "MTGAPITimeoutError" /\ sent[p] = 1

\* C11: an attempt that ends in a connection failure ends the call with the
\* connection error and no further attempt.
C11_ConnectErrorNoRetry ==
  \A p \in Procs :
    LET h == hist[p] IN
    (h # <<>> /\ Last(h).kind = "connect") =>
       /\ EndedAtLast(p)
       /\ result[p].kind = "MTGAPIConnectionError"

C11_Witness ==
  \E p \in Procs :
    /\ pc[p] = "done" /\ Len(hist[p]) = 2
    /\ hist[p][1].kind = "other" /\ hist[p][2].kind = "connect"
    /\ result[p].kind = "MTGAPIConnectionError" /\ sent[p] = 2

\* C12: an attempt that ends in any other unexpected failure is followed by
\* the backoff wait and a retry when it was attempt 1 or 2, and ends the call
\* with the generic API error (no status code) when it was attempt 3.
C12_UnexpectedFailureRetried ==
  \A p \in Procs :
    LET h == hist[p] IN
    (h # <<>> /\ Last(h).kind = "other") =>
       /\ Len(h) < 3 =>
            /\ waited[p] = Len(h)
            /\ \/ pc[p] = "sleep" /\ sent[p] = Len(h)
               \/ pc[p] = "inflight" /\ sent[p] = Len(h) + 1
       /\ Len(h) = 3 =>
            /\ EndedAtLast(p)
            /\ result[p] = [kind |-> "MTGAPIError", status |-> NoStatus, body |-> NoBody]

C12_Witness ==
  \E p \in Procs :
    /\ pc[p] = "done" /\ Len(hist[p]) = 3
    /\ \A i \in 1..3 : hist[p][i].kind = "other"
    /\ result[p].kind = "MTGAPIError" /\ sent[p] = 3 /\ waited[p] = 2

\* C13: the wait before the second attempt is 1 time-unit and the wait
\* before the third is 2, whatever caused the retry; no wait precedes the
\* first attempt or follows the attempt that ends the call, so the waits of
\* one call never add up to more than 3 time-units.
SumSeq(s) == IF s = <<>> THEN 0 ELSE IF Len(s) = 1 THEN s[1] ELSE s[1] + s[2]

C13_BackoffSchedule ==
  \A p \in Procs :
    /\ backoffs[p] \in {<<>>, <<1>>, <<1, 2>>}
    /\ Len(backoffs[p]) = waited[p]
    /\ SumSeq(backoffs[p]) <= 3
    /\ pc[p] = "sleep" =>
          (Len(backoffs[p]) = sent[p] /\ wake[p] <= now + Last(backoffs[p]))
    /\ pc[p] = "inflight" => Len(backoffs[p]) = sent[p] - 1
    /\ (pc[p] = "done" /\ sent[p] > 0) => Len(backoffs[p]) = sent[p] - 1
    /\ sent[p] = 0 => backoffs[p] = <<>>

C13_Witness ==
  \E p \in Procs :
    /\ pc[p] = "done" /\ Len(hist[p]) = 3
    /\ Is5xx(hist[p][1]) /\ hist[p][2].kind = "other"
    /\ backoffs[p] = <<1, 2>> /\ sent[p] = 3

\* ------------------------------------------------------ properties of the operations
Blank(text) == \A i \in 1..Len(text) : text[i] \in {" ", "\t"}

\* The call of p has been prepared: validated, and its request built.
Prepared(p) == call[p] # NoCall /\ request[p] # NoRequest

\* C14: a validation failure of search_cards, get_card, filter_cards or
\* get_random_cards is raised before any network I/O: the failing call sends
\* no HTTP attempt, acquires no throttle slot and starts no retry loop; a
\* search with an empty or all-whitespace name is such a call.
C14_ValidationBeforeIO ==
  \A p \in Procs :
    /\ (reply[p].kind = "MTGValidationError" \/ request[p].err # NoError) =>
          /\ pc[p] = "done"
          /\ reply[p] = request[p].err
          /\ sent[p] = 0 /\ acquired[p] = 0 /\ waited[p] = 0
          /\ hist[p] = <<>> /\ result[p] = NoResult
    /\ (call[p].op = "search_cards" /\ Blank(call[p].str.s)) =>
          /\ reply[p].kind = "MTGValidationError"
          /\ sent[p] = 0 /\ acquired[p] = 0

C14_Witness ==
  \E p \in Procs :
    /\ pc[p] = "done" /\ call[p] = search_cards(<<" ">>, 1)
    /\ reply[p].kind = "MTGValidationError" /\ sent[p] = 0
    /\ calls = 2 /\ session = TRUE

\* C15: search_cards (with a valid name) raises the validation error
\* "Limit must be between 1 and 50" iff its limit n is < 1 or > 50,
\* filter_cards raises iff its limit is < 1 or > 100, get_random_cards raises
\* iff its count is < 1 or > 10; the accepted values, the bounds included,
\* lead to a request for /cards whose pageSize is n.
C15_LimitRanges ==
  \A p \in Procs :
    Prepared(p) =>
      LET c == call[p]
          r == request[p]
          n == IF c.op = "filter_cards"
                 THEN (IF "limit" \in DOMAIN c.filters THEN c.filters["limit"].i ELSE 20)
                 ELSE c.num
          Accepted == /\ r.err.kind = "none"
                      /\ r.endpoint = <<"/cards">>
                      /\ r.hasParams
                      /\ "pageSize" \in DOMAIN r.params
      IN /\ (c.op = "search_cards" /\ ~Blank(c.str.s)) =>
              /\ (n < 1 \/ n > 50) <=>
                    (r.err.kind = "MTGValidationError"
                       /\ r.err.msg = <<"Limit must be between 1 and 50">>)
              /\ (n >= 1 /\ n <= 50) => (Accepted /\ r.params["pageSize"] = JInt(n))
         /\ c.op = "filter_cards" =>
              /\ (n < 1 \/ n > 100) <=> r.err.kind = "MTGValidationError"
              /\ (n >= 1 /\ n <= 100) => Accepted
         /\ c.op = "get_random_cards" =>
              /\ (n < 1 \/ n > 10) <=> r.err.kind = "MTGValidationError"
              /\ (n >= 1 /\ n <= 10) => (Accepted /\ r.params["pageSize"] = JInt(n))

C15_Witness ==
  \E p \in Procs :
    /\ call[p] = search_cards(<<"a">>, 50)
    /\ request[p].err.kind = "none"
    /\ request[p].params["pageSize"].i = 50

\* C16: get_card raises the not-found error with the message
\* "Card with ID {id} not found" when upstream answers 404 and when it
\* answers 200 with a body that has no card object.
C16_GetCardNotFoundMessage ==
  \A p \in Procs :
    LET h == hist[p] IN
    (/\ call[p].op = "get_card" /\ pc[p] = "done" /\ h # <<>>
     /\ \/ (Last(h).kind = "http" /\ Last(h).status = 404)
        \/ (IsOk200(Last(h)) /\ "card" \notin Doc(Last(h).body).keys)) =>
       /\ reply[p].kind = "MTGAPINotFoundError"
       /\ reply[p].msg = <<"Card with ID ">> \o call[p].str.s \o <<" not found">>

\* C17: get_random_cards(count) returns at most count cards, whatever body
\* upstream answers with.
C17_RandomAtMostCount ==
  \A p \in Procs :
    (call[p].op = "get_random_cards" /\ pc[p] = "done" /\ reply[p].kind = "ok") =>
       Len(reply[p].value) <= call[p].num

\* C19: get_sets with a set code returns at most one Set and raises the
\* not-found error when upstream has no set for the code; with the code
\* omitted (None, or the empty string, which the code treats alike) it sends
\* its request to /sets and returns one Set per upstream element, in
\* upstream order, and an empty upstream list gives an empty result, not an
\* error.
C19_GetSets ==
  \A p \in Procs :
    LET c == call[p]
        h == hist[p]
        given == c.str.t = "str" /\ c.str.s # <<>>
    IN (c.op = "get_sets" /\ pc[p] # "idle") =>
         /\ request[p].endpoint = (IF given THEN <<"/sets/">> \o c.str.s ELSE <<"/sets">>)
         /\ (pc[p] = "done" /\ given) =>
              /\ reply[p].kind = "ok" =>
                   /\ Len(reply[p].value) = 1
                   /\ reply[p].value[1].code = Doc(Last(h).body).set["code"]
              /\ (IsOk200(Last(h)) /\ "set" \notin Doc(Last(h).body).keys) =>
                   reply[p].kind = "MTGAPINotFoundError"
              /\ (Last(h).kind = "http" /\ Last(h).status = 404) =>
                   reply[p].kind = "MTGAPINotFoundError"
         /\ (pc[p] = "done" /\ ~given /\ IsOk200(Last(h))) =>
              LET up == IF "sets" \in Doc(Last(h).body).keys
                          THEN Doc(Last(h).body).sets ELSE <<>>
              IN /\ reply[p].kind = "ok"
                 /\ Len(reply[p].value) = Len(up)
                 /\ \A i \in 1..Len(up) : reply[p].value[i].code = up[i]["code"]

C19_Witness ==
  \E p \in Procs :
    /\ pc[p] = "done" /\ call[p] = get_sets(JNull)
    /\ reply[p].kind = "ok" /\ Len(reply[p].value) = 2
    /\ reply[p].value[1].code # reply[p].value[2].code

\* C20: build_filter_params serializes a `colors` list as its elements
\* joined by commas, passes every other key, and a `colors` value that is
\* not a list, through unchanged, and always yields the key pageSize.
C20_FilterParams ==
  \A p \in Procs :
    (Prepared(p) /\ call[p].op = "filter_cards" /\ request[p].err.kind = "none") =>
      LET f == [k \in DOMAIN call[p].filters \ {"limit"} |-> call[p].filters[k]]
          params == request[p].params
      IN /\ "pageSize" \in DOMAIN params
         /\ DOMAIN params = DOMAIN f \cup {"pageSize"}
         /\ \A k \in DOMAIN f :
              IF k = "colors" /\ f[k].t = "list"
                THEN LET l == f[k].l
                         j == params[k].s
                     IN /\ params[k].t = "str"
                        /\ Len(j) = (IF l = <<>> THEN 0 ELSE 2 * Len(l) - 1)
                        /\ \A i \in 1..Len(l) : j[2 * i - 1] = l[i][1]
                        /\ \A i \in 1..(Len(l) - 1) : j[2 * i] = ","
                ELSE params[k] = f[k]

C20_Witness ==
  \E p \in Procs :
    /\ Prepared(p) /\ call[p].op = "filter_cards"
    /\ "colors" \in DOMAIN call[p].filters
    /\ call[p].filters["colors"] = JList(<<<<"Red">>, <<"Blue">>>>)
    /\ request[p].err.kind = "none"
    /\ request[p].params["colors"] = JStr(<<"Red", ",", "Blue">>)
    /\ "type" \in DOMAIN request[p].params

\* C18: close() on a client without a session is a no-op that raises
\* nothing; on a client with a session it releases that session and leaves
\* the client with none; the operation that follows any number of close()
\* calls creates a fresh session, sends its attempts on it while it is open,
\* and returns what upstream answered.
C18_CloseSafe ==
  [][\A p \in Procs :
       /\ (pc[p] = "idle" /\ call'[p] = close /\ ~session) =>
             /\ pc'[p] = "done"
             /\ reply'[p] = ReturnedValue(<<>>)
             /\ UNCHANGED <<session, created, released, task_logs, sends>>
       /\ (pc[p] = "idle" /\ call'[p] = close /\ session) =>
             /\ pc'[p] = "closing"
             /\ created \in released'
       /\ (pc[p] = "closing" /\ pc'[p] # "closing") =>
             /\ pc'[p] = "done"
             /\ ~session'
             /\ reply'[p].kind = "ok"
       /\ (pc[p] = "idle" /\ pc'[p] \in {"inflight", "throttle"}) =>
             /\ session'
             /\ using'[p] = created'
             /\ using'[p] \notin released'
             /\ ~session => created' = created + 1
       /\ (pc[p] = "inflight" /\ pc'[p] # "inflight") =>
             /\ using[p] \notin released
             /\ IsOk200(Last(hist'[p])) => reply'[p].kind = "ok"
  ]_vars

C18_Witness ==
  \E p \in Procs :
    /\ pc[p] = "done" /\ call[p].op = "search_cards" /\ reply[p].kind = "ok"
    /\ created = 2 /\ released = {1} /\ using[p] = 2
    /\ calls = CloseCalls

\* ------------------------------------------------------ properties of the whole call
ErrorKinds ==
  {"MTGAPIConnectionError", "MTGAPITimeoutError", "MTGAPIRateLimitError",
   "MTGAPINotFoundError", "MTGAPIServerError", "MTGAPIError", "MTGValidationError"}

\* C25: an operation runs one sequential request pipeline: of its attempts
\* at most one is in flight at any moment, an attempt after the first is
\* sent only when the one before it has completed and its backoff wait has
\* elapsed, and every send is a single attempt.
C25_OnePipeline ==
  [][\A p \in Procs :
       /\ sent'[p] - Len(hist'[p]) = (IF pc'[p] = "inflight" THEN 1 ELSE 0)
       /\ sent'[p] > sent[p] =>
            /\ sent'[p] = sent[p] + 1
            /\ pc'[p] = "inflight"
            /\ sent[p] > 0 =>
                 /\ pc[p] = "sleep"
                 /\ Len(hist[p]) = sent[p]
                 /\ waited[p] = sent[p]
                 /\ now >= wake[p]
  ]_vars

C25_Witness ==
  \E p \in Procs :
    /\ pc[p] = "inflight" /\ sent[p] = 3 /\ Len(hist[p]) = 2 /\ waited[p] = 2
    /\ now >= 3

\* C27: every call of _make_request terminates, after at most 3 attempts
\* and 2 backoff waits, either returning the parsed body of a 200 response
\* or raising an error; it never leaves the retry loop returning None.
C27_Terminates ==
  /\ [](\A p \in Procs :
          /\ sent[p] <= 3 /\ waited[p] <= 2
          /\ result[p].kind # "None"
          /\ (pc[p] = "done" /\ sent[p] > 0) =>
                \/ /\ result[p].kind = "ok"
                   /\ IsOk200(Last(hist[p]))
                   /\ result[p].body = Last(hist[p]).body
                \/ result[p].kind \in ErrorKinds \ {"MTGValidationError"})
  /\ \A p \in Procs : (pc[p] \in {"inflight", "sleep"}) ~> (pc[p] = "done")

C27_Witness ==
  \E p \in Procs :
    /\ pc[p] = "done" /\ sent[p] = 3 /\ waited[p] = 2
    /\ result[p].kind = "ok" /\ hist[p][3].body = result[p].body

\* C30: an attempt that receives HTTP 200 with a body that does not parse
\* is retried after the backoff wait when it is attempt 1 or 2, and on
\* attempt 3 the call raises the generic API error without a status code;
\* no call returns a result from such a response.
C30_UnparsableBody ==
  \A p \in Procs :
    LET h == hist[p]
        unparsable(o) == o.kind = "http" /\ o.status = 200 /\ o.body = Unparsable
    IN /\ (h # <<>> /\ unparsable(Last(h)) /\ Len(h) < 3) =>
             /\ waited[p] = Len(h)
             /\ Last(backoffs[p]) = Pow(2, Len(h) - 1)
             /\ \/ pc[p] = "sleep" /\ sent[p] = Len(h) /\ wake[p] <= now + Last(backoffs[p])
                \/ pc[p] = "inflight" /\ sent[p] = Len(h) + 1
       /\ (h # <<>> /\ unparsable(Last(h)) /\ Len(h) = 3) =>
             /\ pc[p] = "done"
             /\ result[p] = MTGAPIError(NoStatus)
             /\ reply[p].kind = "MTGAPIError" /\ reply[p].status = NoStatus
       /\ result[p].kind = "ok" => (result[p].body # Unparsable /\ ~unparsable(Last(h)))

C30_Witness ==
  \E p \in Procs :
    /\ pc[p] = "done" /\ Len(hist[p]) = 3
    /\ \A i \in 1..3 : hist[p][i].status = 200 /\ hist[p][i].body = Unparsable
    /\ result[p] = MTGAPIError(NoStatus) /\ waited[p] = 2

\* C28: in every request sent by filter_cards the pageSize parameter equals
\* the validated limit, an integer in 1..100 (20 when no limit is given),
\* whatever the other criteria are, a criterion named pageSize included.
C28_PageSizeIsLimit ==
  \A p \in Procs :
    (Prepared(p) /\ call[p].op = "filter_cards" /\ request[p].err.kind = "none") =>
      LET limit == IF "limit" \in DOMAIN call[p].filters
                     THEN call[p].filters["limit"] ELSE JInt(20)
      IN /\ limit.i >= 1 /\ limit.i <= 100
         /\ request[p].params["pageSize"] = limit

\* C22: a client operation that fails, fails with one kind of the closed
\* taxonomy; the validation kind is raised before any I/O and every other
\* kind after the request has been sent; and an operation one of whose
\* attempts received an error status that is not retried (a status other
\* than 200 below 500) does not return a result.
C22_ClosedTaxonomy ==
  \A p \in Procs :
    (pc[p] = "done" /\ call[p] # NoCall) =>
      /\ reply[p].kind \in ErrorKinds \cup {"ok"}
      /\ reply[p].kind = "MTGValidationError" => sent[p] = 0
      /\ reply[p].kind \in ErrorKinds \ {"MTGValidationError"} => sent[p] >= 1
      /\ reply[p].kind = "ok" =>
           \A i \in 1..Len(hist[p]) :
             hist[p][i].kind = "http" => (hist[p][i].status = 200 \/ hist[p][i].status >= 500)

\* C26: every HTTP attempt is sent on a session that is open when the
\* attempt is sent, under any interleaving of operations and close() calls.
C26_SendOnOpenSession ==
  [][\A p \in Procs : sent'[p] > sent[p] => using'[p] \notin released]_vars

\* The sessions the client has created and not closed.
OpenSessions == {i \in 1..created : i \notin released}

\* C29: the client holds at most one session at any time and creates one
\* only when an operation runs while it has none: a session is created
\* only after every earlier one has been released by a close().
C29_AtMostOneSession ==
  [][/\ created' > created =>
          /\ ~session
          /\ created' = created + 1
          /\ \A i \in 1..created : i \in released
     /\ Cardinality({i \in 1..created' : i \notin released'}) <= 1
  ]_vars

\* ------------------------------------------------------ properties of converters and handlers
\* The fields of Card and Set, the upstream key each is read from and the
\* default it gets.
CardFields ==
  {<<"id", "id", JStr(<<>>)>>, <<"name", "name", JStr(<<>>)>>,
   <<"mana_cost", "manaCost", JNull>>, <<"cmc", "cmc", JNull>>,
   <<"colors", "colors", JList(<<>>)>>, <<"color_identity", "colorIdentity", JList(<<>>)>>,
   <<"type", "type", JNull>>, <<"supertypes", "supertypes", JList(<<>>)>>,
   <<"types", "types", JList(<<>>)>>, <<"subtypes", "subtypes", JList(<<>>)>>,
   <<"text", "text", JNull>>, <<"power", "power", JNull>>,
   <<"toughness", "toughness", JNull>>, <<"loyalty", "loyalty", JNull>>,
   <<"set_name", "setName", JNull>>, <<"set_code", "set", JNull>>,
   <<"rarity", "rarity", JNull>>, <<"image_url", "imageUrl", JNull>>}

SetFields ==
  {<<"code", "code", JStr(<<>>)>>, <<"name", "name", JStr(<<>>)>>,
   <<"type", "type", JNull>>, <<"release_date", "releaseDate", JNull>>,
   <<"block", "block", JNull>>, <<"online_only", "onlineOnly", JBool(FALSE)>>,
   <<"card_count", "cardCount", JNull>>}

\* C21: conversion of an upstream card or set that lacks any subset of its
\* keys yields a record in which every field whose key is present equals
\* the upstream value and every other field has its default: "" for id,
\* name and code, the empty list for list fields, false for online_only,
\* null otherwise.
C21_ConversionExact ==
  converted.kind # "none" =>
    LET fields == IF converted.kind = "Card" THEN CardFields ELSE SetFields
        d == api_data.data
    IN /\ DOMAIN converted.rec = {f[1] : f \in fields}
       /\ \A f \in fields :
            converted.rec[f[1]] = (IF f[2] \in DOMAIN d THEN d[f[2]] ELSE f[3])

C21_Witness ==
  /\ converted.kind = "Card"
  /\ DOMAIN api_data.data = {"setName", "colorIdentity"}
  /\ converted.rec.set_name = JStr(<<"v:", "setName">>)
  /\ converted.rec.color_identity = JList(<<<<"colorIdentity">>, <<"x">>>>)
  /\ converted.rec.colors = JList(<<>>) /\ converted.rec.id = JStr(<<>>)
  /\ converted.rec.set_code = JNull

\* A field holds a value: it is neither null nor empty.
Populated(v) == v \notin {JNull, JStr(<<>>), JList(<<>>)}

DetailLabels ==
  {<<"id", "ID: ">>, <<"mana_cost", "Mana Cost: ">>, <<"cmc", "Converted Mana Cost: ">>,
   <<"colors", "Colors: ">>, <<"color_identity", "Color Identity: ">>, <<"type", "Type: ">>,
   <<"supertypes", "Supertypes: ">>, <<"types", "Types: ">>, <<"subtypes", "Subtypes: ">>,
   <<"power", "Power/Toughness: ">>, <<"toughness", "Power/Toughness: ">>,
   <<"loyalty", "Loyalty: ">>, <<"text", "Text: ">>, <<"set_name", "Set: ">>,
   <<"set_code", "Set: ">>, <<"rarity", "Rarity: ">>, <<"image_url", "Image URL: ">>}

\* C24: the output of get_card_details has a line for every populated field
\* of the card and no line for an absent one.
C24_LinePerPopulatedField ==
  result_lines # <<>> =>
    \A f \in DetailLabels :
      LET v == converted.rec[f[1]]
          HasLine == \E i \in 1..Len(result_lines) : result_lines[i][1] = f[2]
          Absent == \A g \in DetailLabels : g[2] = f[2] => ~Populated(converted.rec[g[1]])
      IN /\ Populated(v) => HasLine
         /\ Absent => ~HasLine

\* C23: the handlers reject surface-invalid arguments before the client is
\* invoked (search_cards with name missing, empty or whitespace-only or
\* with a non-integer limit, filter_cards with a non-integer limit,
\* get_card_details with card_id missing, empty or whitespace-only): an
\* error is raised and no client operation is called; an integer limit
\* outside the allowed range passes the handler and is rejected by the
\* validation of the client.
C23_HandlersRejectFirst ==
  handled # NotHandled =>
    LET a == arguments.args
        tool == arguments.tool
        Missing(key) == key \notin DOMAIN a \/ a[key] = JNull
                        \/ (a[key].t = "str" /\ Blank(a[key].s))
        NonIntegerLimit == "limit" \in DOMAIN a /\ a["limit"].t # "int"
        SurfaceInvalid ==
          \/ tool = "search_cards" /\ (Missing("name") \/ NonIntegerLimit)
          \/ tool = "filter_cards" /\ NonIntegerLimit
          \/ tool = "get_card_details" /\ Missing("card_id")
        hi == IF tool = "search_cards" THEN 50 ELSE 100
        OutOfRange == /\ tool \in {"search_cards", "filter_cards"}
                      /\ "limit" \in DOMAIN a /\ a["limit"].t = "int"
                      /\ (a["limit"].i < 1 \/ a["limit"].i > hi)
    IN /\ SurfaceInvalid =>
            /\ handled.err.kind # "none"
            /\ handled.call = NoCall
            /\ \A p \in Procs : call[p] = NoCall /\ request[p] = NoRequest
       /\ (~SurfaceInvalid /\ OutOfRange /\ (tool = "search_cards" => a["name"].t = "str")) =>
            /\ handled.err.kind = "none"
            /\ handled.call # NoCall
            /\ \E p \in Procs : call[p] = handled.call
                                /\ request[p].err.kind = "MTGValidationError"

====
